---- MODULE Spec2Model ----
(***************************************************************************)
(* Model of jupyter-stats' utilities:                                      *)
(*   src/utils/dataframe_processors.py  get_value_from_dataframe           *)
(*   src/utils/visualizers.py           BaseVisualizer, DataFrameVisualizer*)
(*                                                                         *)
(* Python values are records [kind, val]: kind is the runtime class and    *)
(* val the numeric value (True = 1, False = 0, 2.0 = 2); for a pd.Series   *)
(* val is the sequence of its elements.  Objects living on a figure are    *)
(* records [dim, items]: dim 0 is one Axes, dim 1 / dim 2 are the numpy    *)
(* arrays of Axes that plt.subplots returns.                               *)
(***************************************************************************)
EXTENDS Integers, Sequences, FiniteSets, TLC

VARIABLES op, args, pc, ret, exc,
          nrows, ncols, axes, i, ax_i, fig, log

vars == <<op, args, pc, ret, exc, nrows, ncols, axes, i, ax_i, fig, log>>

(* ---------------------------- bounds ---------------------------------- *)
MaxPlots == 5
MaxCols == 5
MaxDim == 3
MaxIdx == 6
MaxVal == 2

(* ------------------------- Python values ------------------------------ *)
PyInt(v) == [kind |-> "int", val |-> v]
PyBool(v) == [kind |-> "bool", val |-> v]
PyFloat(v) == [kind |-> "float", val |-> v]
PyStr(v) == [kind |-> "str", val |-> v]
PyNone == [kind |-> "NoneType", val |-> 0]

\* the classes a value's class inherits from (bool is a subclass of int)
Mro(kind) == IF kind = "bool" THEN {"bool", "int"} ELSE {kind}

isinstance(v, type) == type \in Mro(v.kind)

NoValue == [kind |-> "unset", val |-> 0]

(* ------------------ dataframe_processors.py --------------------------- *)
Series(elems) == [kind |-> "Series", val |-> elems]

\* mutant: the first element of a Series is checked against data_type
get_value_checked(data, data_type, empty_value) ==
    IF isinstance(data, "Series")
    THEN IF Len(data.val) = 0
         THEN [exc |-> "", val |-> empty_value]
         ELSE IF isinstance(data.val[1], data_type)
              THEN [exc |-> "", val |-> data.val[1]]
              ELSE [exc |-> "TypeError", val |-> NoValue]
    ELSE IF isinstance(data, data_type)
         THEN [exc |-> "", val |-> data]
         ELSE [exc |-> "TypeError", val |-> NoValue]

\* mutant: a value of the wrong type yields empty_value instead of raising
get_value_lenient(data, data_type, empty_value) ==
    IF isinstance(data, "Series")
    THEN IF Len(data.val) = 0
         THEN [exc |-> "", val |-> empty_value]
         ELSE [exc |-> "", val |-> data.val[1]]
    ELSE IF isinstance(data, data_type)
         THEN [exc |-> "", val |-> data]
         ELSE [exc |-> "", val |-> empty_value]

\* get_value_from_dataframe(data, data_type, empty_value)
get_value_from_dataframe(data, data_type, empty_value) ==
    IF isinstance(data, "Series")
    THEN IF Len(data.val) = 0
         THEN [exc |-> "", val |-> empty_value]
         ELSE [exc |-> "", val |-> data.val[1]]
    ELSE IF isinstance(data, data_type)
         THEN [exc |-> "", val |-> data]
         ELSE [exc |-> "TypeError", val |-> NoValue]

(* ------------------ visualizers.py: BaseVisualizer -------------------- *)
\* BaseVisualizer.__init__ defaults
row_size == 10
col_size == 10

\* mutant: one integer argument is enough to pass the type check
CheckArgsEitherInt(nplots, max_ncols) ==
    IF isinstance(nplots, "int") \/ isinstance(max_ncols, "int")
    THEN IF nplots.val <= 0 \/ max_ncols.val <= 0 THEN "ValueError" ELSE ""
    ELSE "TypeError"

\* the argument check of _calc_nrows_ncols: "" when the arguments pass
CheckArgs(nplots, max_ncols) ==
    IF isinstance(nplots, "int") /\ isinstance(max_ncols, "int")
    THEN IF nplots.val <= 0 \/ max_ncols.val <= 0 THEN "ValueError" ELSE ""
    ELSE "TypeError"

\* mutant: the partially filled last row is forgotten
LayoutFloor(nplots, max_ncols) ==
    LET c == IF nplots < max_ncols THEN nplots ELSE max_ncols
    IN  [exc |-> "", nrows |-> nplots \div c, ncols |-> c]

\* mutant: the comparison of nplots and max_ncols is inverted
LayoutWidest(nplots, max_ncols) ==
    LET c == IF nplots > max_ncols THEN nplots ELSE max_ncols
        r == (nplots \div c) + (IF nplots % c # 0 THEN 1 ELSE 0)
    IN  [exc |-> "", nrows |-> r, ncols |-> c]

\* the arithmetic of _calc_nrows_ncols on arguments that passed the check
Layout(nplots, max_ncols) ==
    LET c == IF nplots < max_ncols THEN nplots ELSE max_ncols
        r == (nplots \div c) + (IF nplots % c # 0 THEN 1 ELSE 0)
    IN  [exc |-> "", nrows |-> r, ncols |-> c]

\* BaseVisualizer._calc_nrows_ncols(nplots, max_ncols)
calc_nrows_ncols(nplots, max_ncols) ==
    IF CheckArgs(nplots, max_ncols) # ""
    THEN [exc |-> CheckArgs(nplots, max_ncols), nrows |-> 0, ncols |-> 0]
    ELSE Layout(nplots.val, max_ncols.val)

\* one Axes of the figure, identified by its cell of the subplot grid
Axes(r, c) == [dim |-> 0, items |-> [row |-> r, col |-> c]]

NoObj == [dim |-> -1, items |-> [row |-> -1, col |-> -1]]

\* plt.subplots(nrows, ncols) with its default squeeze=True: one Axes for a
\* 1 x 1 grid, a 1-d array when one dimension is 1, a 2-d array otherwise
get_subplots(r, c) ==
    IF r = 1 /\ c = 1 THEN Axes(0, 0)
    ELSE IF r = 1 THEN [dim |-> 1, items |-> [k \in 0..(c - 1) |-> Axes(0, k)]]
    ELSE IF c = 1 THEN [dim |-> 1, items |-> [k \in 0..(r - 1) |-> Axes(k, 0)]]
    ELSE [dim |-> 2,
          items |-> [k \in 0..(r - 1) |-> [j \in 0..(c - 1) |-> Axes(k, j)]]]

\* figsize handed to plt.subplots
figsize(r, c) == [alloc |-> TRUE, w |-> col_size * c, h |-> row_size * r]

NoFig == [alloc |-> FALSE, w |-> 0, h |-> 0]

\* a[r, c] for a non-negative r, c
Index2(a, r, c) ==
    IF a.dim = 0 THEN [exc |-> "TypeError", access |-> "2d", val |-> NoObj]
    ELSE IF a.dim = 1 THEN [exc |-> "IndexError", access |-> "2d", val |-> NoObj]
    ELSE IF r \in DOMAIN a.items /\ c \in DOMAIN a.items[r]
         THEN [exc |-> "", access |-> "2d", val |-> a.items[r][c]]
         ELSE [exc |-> "IndexError", access |-> "2d", val |-> NoObj]

\* a[k] for a non-negative k; on a 2-d array it is row k
Index1(a, k) ==
    IF a.dim = 0 THEN [exc |-> "TypeError", access |-> "1d", val |-> NoObj]
    ELSE IF k \notin DOMAIN a.items
         THEN [exc |-> "IndexError", access |-> "1d", val |-> NoObj]
         ELSE IF a.dim = 1
              THEN [exc |-> "", access |-> "1d", val |-> a.items[k]]
              ELSE [exc |-> "", access |-> "1d",
                    val |-> [dim |-> 1, items |-> a.items[k]]]

\* mutant: the row is computed with nrows instead of ncols
get_ax_by_nrows(a, idx, r, c) ==
    IF r > 1 /\ c > 1
    THEN Index2(a, idx \div r, idx % r)
    ELSE IF r * c = 1
         THEN [exc |-> "", access |-> "none", val |-> a]
         ELSE Index1(a, idx)

\* mutant: row and column are swapped (column-major placement)
get_ax_swapped(a, idx, r, c) ==
    IF r > 1 /\ c > 1
    THEN Index2(a, idx % c, idx \div c)
    ELSE IF r * c = 1
         THEN [exc |-> "", access |-> "none", val |-> a]
         ELSE Index1(a, idx)

\* mutant: the 1 x 1 grid is indexed like a 1-d array
get_ax_no_scalar(a, idx, r, c) ==
    IF r > 1 /\ c > 1
    THEN Index2(a, idx \div c, idx % c)
    ELSE Index1(a, idx)

\* BaseVisualizer._get_ax(axes, idx, nrows, ncols)
get_ax(a, idx, r, c) ==
    IF r > 1 /\ c > 1
    THEN Index2(a, idx \div c, idx % c)
    ELSE IF r * c = 1
         THEN [exc |-> "", access |-> "none", val |-> a]
         ELSE Index1(a, idx)

(* --------------- visualizers.py: DataFrameVisualizer ------------------ *)
\* Python's binding of a call's arguments to a function's parameters:
\* positionals fill the parameters left to right, keywords by name
BindArgs(params, defaults, posargs, kwargs) ==
    IF Len(posargs) > Len(params) THEN [exc |-> "TypeError"]
    ELSE IF \E k \in 1..Len(posargs) : params[k] \in DOMAIN kwargs
         THEN [exc |-> "TypeError"]
    ELSE IF \E k \in (Len(posargs) + 1)..Len(params) :
                params[k] \notin (DOMAIN kwargs \cup DOMAIN defaults)
         THEN [exc |-> "TypeError"]
    ELSE [exc |-> "",
          bound |-> [p \in {params[k] : k \in 1..Len(params)} |->
                       LET k == CHOOSE j \in 1..Len(params) : params[j] = p
                       IN  IF k <= Len(posargs) THEN posargs[k]
                           ELSE IF p \in DOMAIN kwargs THEN kwargs[p]
                           ELSE defaults[p]]]

\* def _plot_dots(self, x_col, y_col, plot_size, ax, hue_col=None, **kwargs)
plot_dots_params == <<"x_col", "y_col", "plot_size", "ax", "hue_col">>

plot_dots_defaults == [hue_col |-> "None"]

NoCall == [call |-> "", ax |-> NoObj, y |-> 0, hue |-> "", size |-> 0]

\* DataFrameVisualizer._plot_dots called with these arguments: the
\* sns.stripplot call it makes, or the TypeError of the binding
plot_dots(posargs, kwargs) ==
    LET b == BindArgs(plot_dots_params, plot_dots_defaults, posargs, kwargs)
    IN  IF b.exc # "" THEN [exc |-> b.exc, call |-> NoCall]
        ELSE [exc |-> "",
              call |-> [call |-> "stripplot", ax |-> b.bound["ax"],
                        y |-> b.bound["y_col"], hue |-> b.bound["hue_col"],
                        size |-> b.bound["plot_size"]]]

\* the arguments plot_bar passes to self._plot_dots
plot_bar_dots_call(x_col, y_col, hue_col, plot_size, ax) ==
    plot_dots(<<x_col, y_col, hue_col, plot_size>>, [ax |-> ax])

(* ---------------------------- inputs ---------------------------------- *)
NonInts == {PyBool(0), PyBool(1), PyFloat(2), PyStr(0), PyNone}
NplotsArgs == {PyInt(v) : v \in (-1)..MaxPlots} \cup NonInts
MaxNcolsArgs == {PyInt(v) : v \in (-1)..MaxCols} \cup NonInts
Scalars == {PyInt(v) : v \in 0..MaxVal} \cup {PyBool(1), PyFloat(2), PyStr(0)}
Fallbacks == {PyInt(-1), PyNone}
Types == {"int", "str", "float", "bool", "Series"}
SeriesVals == {Series(<<>>)} \cup {Series(<<a>>) : a \in Scalars}
               \cup {Series(<<a, b>>) : a \in Scalars, b \in Scalars}
HueCols == {"None", "g"}
PlotSizes == {10, 4}

Idle ==
    /\ pc = "call" /\ ret = NoValue /\ exc = ""
    /\ nrows = 0 /\ ncols = 0 /\ axes = NoObj /\ i = 0 /\ ax_i = NoObj
    /\ fig = NoFig /\ log = <<>>

Init ==
    /\ Idle
    /\ \/ /\ op = "calc_nrows_ncols"
          /\ args \in [nplots : NplotsArgs, max_ncols : MaxNcolsArgs]
       \/ /\ op = "get_ax"
          /\ \E cr \in 1..MaxDim, cc \in 1..MaxDim :
                args \in [axes : {get_subplots(cr, cc)}, idx : 0..MaxIdx,
                          nrows : 1..MaxDim, ncols : 1..MaxDim]
       \/ /\ op = "get_value_from_dataframe"
          /\ \/ args \in [data : Scalars, data_type : Types,
                          empty_value : Fallbacks]
             \/ args \in [data : SeriesVals, data_type : Types,
                          empty_value : Fallbacks]
       \/ /\ op = "plot_bar"
          /\ \E n \in 0..MaxPlots :
                args \in [y_cols : {[k \in 1..n |-> k]}, hue_col : HueCols,
                          max_ncols : MaxNcolsArgs, plot_dots : BOOLEAN,
                          plot_size : PlotSizes, long_xticklabels : BOOLEAN]

(* ---------------------------- actions --------------------------------- *)
locals == <<nrows, ncols, axes, i, ax_i, fig, log>>

Raise(e) == pc' = "raised" /\ exc' = e /\ ret' = NoValue

\* a call of BaseVisualizer._calc_nrows_ncols
CalcNrowsNcols ==
    /\ pc = "call" /\ op = "calc_nrows_ncols"
    /\ LET r == calc_nrows_ncols(args.nplots, args.max_ncols)
       IN  IF r.exc # "" THEN Raise(r.exc)
           ELSE pc' = "returned" /\ exc' = "" /\ ret' = r
    /\ UNCHANGED <<op, args, locals>>

\* a call of BaseVisualizer._get_ax
GetAx ==
    /\ pc = "call" /\ op = "get_ax"
    /\ LET r == get_ax(args.axes, args.idx, args.nrows, args.ncols)
       IN  IF r.exc # "" THEN Raise(r.exc)
           ELSE pc' = "returned" /\ exc' = "" /\ ret' = r
    /\ UNCHANGED <<op, args, locals>>

\* a call of get_value_from_dataframe
GetValueFromDataframe ==
    /\ pc = "call" /\ op = "get_value_from_dataframe"
    /\ LET r == get_value_from_dataframe(args.data, args.data_type,
                                         args.empty_value)
       IN  IF r.exc # "" THEN Raise(r.exc)
           ELSE pc' = "returned" /\ exc' = "" /\ ret' = r.val
    /\ UNCHANGED <<op, args, locals>>

\* mutant: a rejected plan falls back to a 1 x 1 grid
PlotBarPlanFallback ==
    /\ pc = "call" /\ op = "plot_bar"
    /\ LET r == calc_nrows_ncols(PyInt(Len(args.y_cols)), args.max_ncols)
       IN  IF r.exc # ""
           THEN pc' = "subplots" /\ nrows' = 1 /\ ncols' = 1
           ELSE pc' = "subplots" /\ nrows' = r.nrows /\ ncols' = r.ncols
    /\ UNCHANGED <<op, args, exc, ret, axes, i, ax_i, fig, log>>

\* plot_bar, line 126: the grid for len(y_cols) plots
PlotBarPlan ==
    /\ pc = "call" /\ op = "plot_bar"
    /\ LET r == calc_nrows_ncols(PyInt(Len(args.y_cols)), args.max_ncols)
       IN  IF r.exc # ""
           THEN Raise(r.exc) /\ UNCHANGED <<nrows, ncols>>
           ELSE /\ pc' = "subplots" /\ nrows' = r.nrows /\ ncols' = r.ncols
                /\ UNCHANGED <<exc, ret>>
    /\ UNCHANGED <<op, args, axes, i, ax_i, fig, log>>

\* plot_bar, line 127: the figure and its axes
PlotBarSubplots ==
    /\ pc = "subplots"
    /\ fig' = figsize(nrows, ncols)
    /\ axes' = get_subplots(nrows, ncols)
    /\ i' = 0
    /\ pc' = "loop"
    /\ UNCHANGED <<op, args, ret, exc, nrows, ncols, ax_i, log>>

\* plot_bar, lines 129-130: the next column and its axis
PlotBarGetAx ==
    /\ pc = "loop" /\ i < Len(args.y_cols)
    /\ LET r == get_ax(axes, i, nrows, ncols)
       IN  IF r.exc # "" THEN Raise(r.exc) /\ UNCHANGED ax_i
           ELSE pc' = "barplot" /\ ax_i' = r.val /\ UNCHANGED <<exc, ret>>
    /\ UNCHANGED <<op, args, nrows, ncols, axes, i, fig, log>>

\* plot_bar, line 131: sns.barplot onto ax_i
PlotBarBarplot ==
    /\ pc = "barplot"
    /\ log' = Append(log, [call |-> "barplot", ax |-> ax_i,
                           y |-> args.y_cols[i + 1], hue |-> args.hue_col,
                           size |-> 0])
    /\ pc' = IF args.plot_dots THEN "plot_dots" ELSE "set"
    /\ UNCHANGED <<op, args, ret, exc, nrows, ncols, axes, i, ax_i, fig>>

\* plot_bar, lines 133-134: the overlaid dots
PlotBarDots ==
    /\ pc = "plot_dots"
    /\ LET r == plot_bar_dots_call("x", args.y_cols[i + 1], args.hue_col,
                                   args.plot_size, ax_i)
       IN  IF r.exc # "" THEN Raise(r.exc) /\ UNCHANGED log
           ELSE /\ pc' = "set" /\ log' = Append(log, r.call)
                /\ UNCHANGED <<exc, ret>>
    /\ UNCHANGED <<op, args, nrows, ncols, axes, i, ax_i, fig>>

\* plot_bar, line 136: labels and title
PlotBarSet ==
    /\ pc = "set"
    /\ log' = Append(log, [call |-> "set", ax |-> ax_i,
                           y |-> args.y_cols[i + 1], hue |-> "", size |-> 0])
    /\ IF args.long_xticklabels
       THEN pc' = "xticklabels" /\ i' = i
       ELSE pc' = "loop" /\ i' = i + 1
    /\ UNCHANGED <<op, args, ret, exc, nrows, ncols, axes, ax_i, fig>>

\* plot_bar, lines 138-139: rotated tick labels
PlotBarXticklabels ==
    /\ pc = "xticklabels"
    /\ log' = Append(log, [call |-> "set_xticklabels", ax |-> ax_i,
                           y |-> args.y_cols[i + 1], hue |-> "", size |-> 0])
    /\ pc' = "loop" /\ i' = i + 1
    /\ UNCHANGED <<op, args, ret, exc, nrows, ncols, axes, ax_i, fig>>

\* plot_bar, line 141: return fig
PlotBarReturn ==
    /\ pc = "loop" /\ i >= Len(args.y_cols)
    /\ pc' = "returned" /\ ret' = fig
    /\ UNCHANGED <<op, args, exc, locals>>

Next ==
    \/ CalcNrowsNcols
    \/ GetAx
    \/ GetValueFromDataframe
    \/ PlotBarPlan
    \/ PlotBarSubplots
    \/ PlotBarGetAx
    \/ PlotBarBarplot
    \/ PlotBarDots
    \/ PlotBarSet
    \/ PlotBarXticklabels
    \/ PlotBarReturn

Spec == Init /\ [][Next]_vars

(* ---------------------------- properties ------------------------------ *)
\* a positive integer of Python: an int (or its subclass bool) above zero
PositiveInteger(v) == v.kind \in {"int", "bool"} /\ v.val > 0

Min(a, b) == IF a <= b THEN a ELSE b

\* the least count of groups of c that hold n items
Ceil(n, c) == CHOOSE r \in 0..n : r * c >= n /\ (r - 1) * c < n

CalcDone == op = "calc_nrows_ncols" /\ pc # "call"
GetAxDone == op = "get_ax" /\ pc # "call"
ExtractDone == op = "get_value_from_dataframe" /\ pc # "call"

\* C1: for positive integers n and m, _calc_nrows_ncols(n, m) returns
\* ncols = min(n, m) and nrows = ceil(n / ncols).
C1_PlanIsMinAndCeil ==
    (CalcDone /\ PositiveInteger(args.nplots) /\ PositiveInteger(args.max_ncols))
    => /\ pc = "returned"
       /\ ret.ncols = Min(args.nplots.val, args.max_ncols.val)
       /\ ret.nrows = Ceil(args.nplots.val, ret.ncols)

C1_Witness ==
    /\ CalcDone /\ args.nplots = PyInt(5) /\ args.max_ncols = PyInt(3)
    /\ pc = "returned" /\ ret.ncols = 3 /\ ret.nrows = 2

\* C2: every grid _calc_nrows_ncols returns has at least one row and one
\* column and at least as many cells as there are plots.
C2_GridHoldsEveryItem ==
    (CalcDone /\ pc = "returned")
    => /\ ret.nrows >= 1
       /\ ret.ncols >= 1
       /\ ret.nrows * ret.ncols >= args.nplots.val

C2_Witness ==
    /\ CalcDone /\ pc = "returned" /\ args.nplots = PyInt(4)
    /\ args.max_ncols = PyInt(3) /\ ret.nrows * ret.ncols > 4

\* C3: _calc_nrows_ncols raises (ValueError or TypeError) and returns no
\* grid exactly when an argument is non-positive or not an integer; it
\* returns a grid for every pair of positive integers.
C3_InvalidArgumentsRaise ==
    CalcDone
    => IF PositiveInteger(args.nplots) /\ PositiveInteger(args.max_ncols)
       THEN pc = "returned" /\ exc = ""
       ELSE pc = "raised" /\ exc \in {"ValueError", "TypeError"}
            /\ ret = NoValue

C3_Witness ==
    /\ CalcDone /\ args.nplots = PyInt(0) /\ args.max_ncols = PyInt(5)
    /\ pc = "raised" /\ exc = "ValueError"

\* C4: with nrows > 1 and ncols > 1, _get_ax returns the element of the
\* 2-d array at (idx // ncols, idx % ncols), which on the array of an
\* nrows x ncols figure is the Axes of that grid cell (row-major order);
\* a position outside the array is an IndexError.
C4_TwoDimensionalIsRowMajor ==
    (GetAxDone /\ args.nrows > 1 /\ args.ncols > 1 /\ args.axes.dim = 2)
    => LET r == args.idx \div args.ncols
           c == args.idx % args.ncols
       IN  IF r \in DOMAIN args.axes.items /\ c \in DOMAIN args.axes.items[r]
           THEN /\ pc = "returned" /\ ret.access = "2d"
                /\ ret.val = Axes(r, c)
           ELSE pc = "raised" /\ exc = "IndexError"

C4_Witness ==
    /\ GetAxDone /\ args.nrows = 2 /\ args.ncols = 3 /\ args.idx = 4
    /\ args.axes = get_subplots(2, 3)
    /\ pc = "returned" /\ ret.val = Axes(1, 1)

\* C5: on a grid that is not two-dimensional _get_ax never indexes with
\* two indices: for a 1 x 1 grid it returns axes itself whatever idx is,
\* and when exactly one of nrows, ncols is 1 it returns element idx of the
\* 1-d array.
C5_NotTwoDimensional ==
    (GetAxDone /\ (args.nrows = 1 \/ args.ncols = 1))
    => /\ pc = "returned" => ret.access # "2d"
       /\ (args.nrows * args.ncols = 1)
          => /\ pc = "returned" /\ ret.access = "none"
             /\ ret.val.dim = args.axes.dim /\ ret.val = args.axes
       /\ (args.nrows * args.ncols > 1 /\ args.axes.dim = 1)
          => IF args.idx \in DOMAIN args.axes.items
             THEN /\ pc = "returned" /\ ret.access = "1d"
                  /\ ret.val = args.axes.items[args.idx]
             ELSE pc = "raised" /\ exc = "IndexError"

C5_Witness ==
    /\ GetAxDone /\ args.nrows = 3 /\ args.ncols = 1 /\ args.idx = 2
    /\ args.axes = get_subplots(3, 1)
    /\ pc = "returned" /\ ret.val = Axes(2, 0)

\* C6: on a Series get_value_from_dataframe returns empty_value when the
\* Series is empty and its first element otherwise, whatever data_type is
\* and however many elements follow.
C6_SeriesGivesFirstOrFallback ==
    (ExtractDone /\ args.data.kind = "Series")
    => /\ pc = "returned"
       /\ ret = IF args.data.val = <<>> THEN args.empty_value
                ELSE Head(args.data.val)

C6_Witness ==
    /\ ExtractDone /\ args.data = Series(<<PyInt(1), PyInt(2)>>)
    /\ args.data_type = "int" /\ args.empty_value = PyInt(-1)
    /\ pc = "returned" /\ ret = PyInt(1)

\* data is an instance of the class named t
InstanceOf(data, t) == data.kind = t \/ (data.kind = "bool" /\ t = "int")

\* C7: get_value_from_dataframe raises TypeError exactly when data is
\* neither a Series nor an instance of data_type; a non-Series instance of
\* data_type is returned as it is.
C7_TypeMismatchRaises ==
    ExtractDone
    => /\ (pc = "raised" /\ exc = "TypeError")
          <=> (args.data.kind # "Series"
               /\ ~InstanceOf(args.data, args.data_type))
       /\ (args.data.kind # "Series" /\ InstanceOf(args.data, args.data_type))
          => (pc = "returned" /\ ret = args.data)

C7_Witness ==
    /\ ExtractDone /\ args.data = PyStr(0) /\ args.data_type = "int"
    /\ pc = "raised" /\ exc = "TypeError"

PlotBarEnded == op = "plot_bar" /\ pc \in {"returned", "raised"}

\* the calls of the log that draw the mark named call
Marks(call) == SelectSeq(log, LAMBDA e : e.call = call)

\* position in the log of the k-th call named call
PosOf(call, k) ==
    CHOOSE p \in 1..Len(log) :
        /\ log[p].call = call
        /\ Cardinality({q \in 1..p : log[q].call = call}) = k

\* the log of a complete plot_bar: for every column, in order, a bar, then
\* (with plot_dots) the dots on the same Axes with plot_size and hue_col as
\* given, then the labels
CompleteLog ==
    LET n == Len(args.y_cols)
    IN  /\ Len(Marks("barplot")) = n
        /\ Len(Marks("set")) = n
        /\ Len(Marks("stripplot")) = IF args.plot_dots THEN n ELSE 0
        /\ \A k \in 1..n :
              /\ Marks("barplot")[k].y = args.y_cols[k]
              /\ Marks("barplot")[k].ax = get_ax(axes, k - 1, nrows, ncols).val
              /\ Marks("barplot")[k].hue = args.hue_col
              /\ Marks("set")[k].ax = Marks("barplot")[k].ax
              /\ PosOf("barplot", k) < PosOf("set", k)
              /\ k < n => PosOf("set", k) < PosOf("barplot", k + 1)
              /\ args.plot_dots
                 => /\ Marks("stripplot")[k].ax = Marks("barplot")[k].ax
                    /\ Marks("stripplot")[k].y = args.y_cols[k]
                    /\ Marks("stripplot")[k].size = args.plot_size
                    /\ Marks("stripplot")[k].hue = args.hue_col
                    /\ PosOf("barplot", k) < PosOf("stripplot", k)
                    /\ PosOf("stripplot", k) < PosOf("set", k)

\* C8: plot_bar with a non-empty y_cols and a positive integer max_ncols
\* draws, for every column in index order, the bar and (plot_dots) the dots
\* with plot_size and hue_col unchanged onto the Axes _get_ax gives for the
\* column, sets the labels, and returns the figure.
C8_PlotBarDrawsEveryColumn ==
    (PlotBarEnded /\ Len(args.y_cols) > 0 /\ PositiveInteger(args.max_ncols))
    => /\ pc = "returned"
       /\ fig.alloc /\ ret = fig
       /\ CompleteLog

\* what plot_bar does without the dots: holds of the code as it is
C8_PlotBarWithoutDots ==
    (PlotBarEnded /\ Len(args.y_cols) > 0 /\ PositiveInteger(args.max_ncols)
       /\ ~args.plot_dots)
    => /\ pc = "returned"
       /\ fig.alloc /\ ret = fig
       /\ CompleteLog

\* C9: for the grid of n plots and the axes plt.subplots makes for it, every
\* idx in 0..n-1 makes _get_ax reach an existing cell of the grid, and two
\* different idx never reach the same cell; so in plot_bar every column gets
\* an Axes of its own.
C9_EveryIndexHasItsOwnCell ==
    /\ (CalcDone /\ pc = "returned")
       => LET a == get_subplots(ret.nrows, ret.ncols)
              cell(k) == get_ax(a, k, ret.nrows, ret.ncols)
              idxs == 0..(args.nplots.val - 1)
          IN  /\ \A k \in idxs :
                    /\ cell(k).exc = ""
                    /\ cell(k).val.dim = 0
                    /\ cell(k).val.items.row \in 0..(ret.nrows - 1)
                    /\ cell(k).val.items.col \in 0..(ret.ncols - 1)
              /\ \A k \in idxs, j \in idxs :
                    k # j => cell(k).val # cell(j).val
    /\ (op = "plot_bar" /\ pc = "barplot")
       => /\ ax_i.dim = 0
          /\ ax_i.items.row \in 0..(nrows - 1)
          /\ ax_i.items.col \in 0..(ncols - 1)
          /\ \A p \in 1..Len(log) : log[p].ax # ax_i
    /\ ~(op = "plot_bar" /\ pc = "raised" /\ exc = "IndexError")
    \* once the figure exists, plot_bar raises only from the call that
    \* follows a bar, never from _get_ax
    /\ (op = "plot_bar" /\ pc = "raised" /\ fig.alloc)
       => (log # <<>> /\ log[Len(log)].call = "barplot")

C9_Witness ==
    /\ op = "plot_bar" /\ pc = "barplot" /\ Len(args.y_cols) = 5
    /\ args.max_ncols = PyInt(3) /\ i = 4 /\ ax_i = Axes(1, 1)
    /\ Len(log) >= 4

\* C10: plot_bar with an empty y_cols, or with a max_ncols that is not a
\* positive integer, raises the error of _calc_nrows_ncols before a figure
\* is made and before anything is drawn, and returns nothing.
C10_PlotBarRejectsBeforeDrawing ==
    (op = "plot_bar" /\ pc # "call"
       /\ (Len(args.y_cols) = 0 \/ ~PositiveInteger(args.max_ncols)))
    => /\ pc = "raised" /\ exc \in {"ValueError", "TypeError"}
       /\ fig = NoFig /\ axes = NoObj /\ log = <<>> /\ ret = NoValue

C10_Witness ==
    /\ op = "plot_bar" /\ pc = "raised" /\ Len(args.y_cols) = 0
    /\ args.max_ncols = PyInt(5) /\ exc = "ValueError" /\ fig = NoFig

====
